---- MODULE Spec2Model ----
(***************************************************************************)
(* A model of the spin-info plugin: source resolution (app_source.rs) and  *)
(* the report pipeline of InfoCommand (info.rs).                           *)
(*                                                                         *)
(* Output is modelled line by line.  One println! is one line, and a line  *)
(* is the sequence of its fragments: the literal pieces of the format      *)
(* string and the rendered arguments, in order.                            *)
(***************************************************************************)
EXTENDS Integers, Sequences, FiniteSets, TLC

VARIABLES
    app_source,      \* InfoCommand.app_source : Option<String>
    pc,              \* position of the invocation
    source,          \* the AppSource computed by InfoCommand::app_source
    path_exists,     \* what PathBuf::exists answered in infer_source
    locked_app,      \* the LockedApp returned by OciLoader::load_app
    fs,              \* the local filesystem the renderers read
    ci,              \* number of components already passed to print_component
    steps,           \* the steps of the invocation, in execution order
    out,             \* standard output, a sequence of lines
    result,          \* how the invocation ended
    arg              \* the argument of the renderer under check

vars == <<app_source, pc, source, path_exists, locked_app, fs, ci, steps, out, result, arg>>

-----------------------------------------------------------------------------
(* Option<T> *)

None == [tag |-> "None"]

Some(x) == [tag |-> "Some", val |-> x]

IsSome(o) == o.tag = "Some"

-----------------------------------------------------------------------------
(* serde_json::Value.  Every value is a record tagged by t.                *)

Null == [t |-> "null"]

Str(s) == [t |-> "str", s |-> s]

Num(n) == [t |-> "num", n |-> n]

Arr(a) == [t |-> "arr", a |-> a]

\* An object keeps its entries as <<key, value>> pairs in key order.
Obj(o) == [t |-> "obj", o |-> o]

(* Map<String, V> (ValuesMap, LockedMap): <<key, value>> pairs, keys       *)
(* unique and in the map's iteration order.                                *)
Has(m, k) == \E i \in 1..Len(m) : m[i][1] = k

Get(m, k) ==
    IF Has(m, k)
    THEN Some(m[CHOOSE i \in 1..Len(m) : m[i][1] = k][2])
    ELSE None

IsEmpty(m) == Len(m) = 0

\* Value::get(key): Some only on an object holding the key.
ValueGet(v, k) == IF v.t = "obj" THEN Get(v.o, k) ELSE None

Quote(s) == "\"" \o s \o "\""

RECURSIVE JoinWith(_, _)
JoinWith(parts, sep) ==
    IF Len(parts) = 0 THEN ""
    ELSE IF Len(parts) = 1 THEN parts[1]
    ELSE parts[1] \o sep \o JoinWith(Tail(parts), sep)

\* impl Display for Value: compact JSON, so a string is printed in quotes.
RECURSIVE Display(_)
Display(v) ==
    CASE v.t = "null" -> "null"
      [] v.t = "str" -> Quote(v.s)
      [] v.t = "num" -> ToString(v.n)
      [] v.t = "arr" ->
            "[" \o JoinWith([i \in 1..Len(v.a) |-> Display(v.a[i])], ",") \o "]"
      [] v.t = "obj" ->
            "{" \o JoinWith([i \in 1..Len(v.o) |->
                       Quote(v.o[i][1]) \o ":" \o Display(v.o[i][2])], ",") \o "}"

\* impl Debug for Value.
RECURSIVE DebugValue(_)
DebugValue(v) ==
    CASE v.t = "null" -> "Null"
      [] v.t = "str" -> "String(" \o Quote(v.s) \o ")"
      [] v.t = "num" -> "Number(" \o ToString(v.n) \o ")"
      [] v.t = "arr" ->
            "Array [" \o JoinWith([i \in 1..Len(v.a) |-> DebugValue(v.a[i])], ", ") \o "]"
      [] v.t = "obj" ->
            "Object {" \o JoinWith([i \in 1..Len(v.o) |->
                       Quote(v.o[i][1]) \o ": " \o DebugValue(v.o[i][2])], ", ") \o "}"

\* impl Debug for Map<String, Value>.
DebugMap(m) ==
    "{" \o JoinWith([i \in 1..Len(m) |->
               Quote(m[i][1]) \o ": " \o DebugValue(m[i][2])], ", ") \o "}"

-----------------------------------------------------------------------------
(* anyhow::Result<()> and the ways an invocation ends.                     *)

Running == [kind |-> "Running", msg |-> ""]

Ok == [kind |-> "Ok", msg |-> ""]

Err(m) == [kind |-> "Err", msg |-> m]

\* A panic unwinds out of run: no Result is returned.
Panic(m) == [kind |-> "Panic", msg |-> m]

\* What a renderer hands back: the lines it printed and its result.
Rendered(lines, res) == [lines |-> lines, res |-> res]

-----------------------------------------------------------------------------
(* InfoCommand::print_metadata *)

MsgNoName == "expected application to have name in metadata"

MsgNoVersion == "expected application to have version in metadata"

MsgAuthorsDecode == "serde_json: invalid type, expected a sequence of strings"

\* serde_json::from_value::<Vec<String>>
DecodesAsStrings(v) == v.t = "arr" /\ \A i \in 1..Len(v.a) : v.a[i].t = "str"

AuthorLines(authors) ==
    <<<<"Authors:">>>> \o [i \in 1..Len(authors.a) |-> <<"   * ", authors.a[i].s>>]

DescriptionLines(meta) ==
    IF Has(meta, "description")
    THEN <<<<Display(Get(meta, "description").val)>>>>
    ELSE <<>>

IdentityLine(meta) ==
    <<"Application name: ", Display(Get(meta, "name").val), "@",
      Display(Get(meta, "version").val)>>

\* print_metadata had it printed the name before looking for the version.
print_metadata_name_first(meta) ==
    IF ~Has(meta, "name") THEN Rendered(<<>>, Err(MsgNoName))
    ELSE IF ~Has(meta, "version")
         THEN Rendered(<< <<"Application name: ", Display(Get(meta, "name").val)>> >>,
                       Err(MsgNoVersion))
    ELSE Rendered(
            <<IdentityLine(meta)>>
            \o (IF Has(meta, "authors") /\ DecodesAsStrings(Get(meta, "authors").val)
                THEN AuthorLines(Get(meta, "authors").val) ELSE <<>>)
            \o DescriptionLines(meta),
            Ok)

\* The arguments of the first println! are evaluated, `?` included, before
\* anything is written.
print_metadata(meta) ==
    IF ~Has(meta, "name") THEN Rendered(<<>>, Err(MsgNoName))
    ELSE IF ~Has(meta, "version") THEN Rendered(<<>>, Err(MsgNoVersion))
    ELSE IF Has(meta, "authors") /\ ~DecodesAsStrings(Get(meta, "authors").val)
         THEN Rendered(<<IdentityLine(meta)>>, Err(MsgAuthorsDecode))
    ELSE Rendered(
            <<IdentityLine(meta)>>
            \o (IF Has(meta, "authors")
                THEN AuthorLines(Get(meta, "authors").val) ELSE <<>>)
            \o DescriptionLines(meta),
            Ok)

-----------------------------------------------------------------------------
(* The local filesystem as print_component sees it.                        *)
(*   fs.stat[p]  what std::fs::metadata(p) answers: Some(size) or None.    *)
(*   fs.walk[p]  what WalkDir::new(p) yields, in order: the entries of the *)
(*               subtree under p in pre-order (a directory before its      *)
(*               contents, symlinks not followed), each with its depth,    *)
(*               or an error.                                              *)

\* A URI, split at the end of its scheme prefix.
Uri(scheme, path) == [scheme |-> scheme, path |-> path]

\* str::strip_prefix("file://")
StripFilePrefix(uri) == IF uri.scheme = "file://" THEN Some(uri.path) ELSE None

Entry(kind, depth, size, meta_ok) ==
    [kind |-> kind, depth |-> depth, size |-> size, meta_ok |-> meta_ok]

\* human_bytes::human_bytes: the size scaled by powers of 1024, one decimal,
\* a trailing ".0" trimmed.
Unit == 1024

Suffix == <<"B", "KiB", "MiB", "GiB">>

RECURSIVE UnitIndex(_)
UnitIndex(n) == IF n < Unit THEN 0 ELSE 1 + UnitIndex(n \div Unit)

RECURSIVE Pow(_, _)
Pow(b, e) == IF e = 0 THEN 1 ELSE b * Pow(b, e - 1)

human_bytes(n) ==
    IF n <= 0 THEN "0 B"
    ELSE LET i == UnitIndex(n)
             tenths == (n * 20 + Pow(Unit, i)) \div (2 * Pow(Unit, i))
             whole == tenths \div 10
             frac == tenths % 10
         IN (IF frac = 0 THEN ToString(whole)
             ELSE ToString(whole) \o "." \o ToString(frac))
            \o " " \o Suffix[i + 1]

-----------------------------------------------------------------------------
(* InfoCommand::print_component *)

MsgNoCommand == "expected component build to have a command field"

MsgNoWasmSource == "expected component to have wasm source"

MsgSourceNotFile == "expected source to be file URI"

MsgNoContentSource == "expected content source"

MsgFileNotFile == "expected file source to be a file URI"

MsgIo == "io error"

MsgWalk == "walkdir error"

\* One capability-grant line: the declared value, or "None".
GrantLine(meta, key, label) ==
    <<label, IF Has(meta, key) THEN Display(Get(meta, key).val) ELSE "None">>

GrantLines(meta) ==
    << <<"   This application is allowed to access:">>,
       GrantLine(meta, "allowed_outbound_hosts", "      * allowed outbound network hosts: "),
       GrantLine(meta, "key_value_stores", "      * allowed key/value stores: "),
       GrantLine(meta, "databases", "      * allowed databases: "),
       GrantLine(meta, "ai_models", "      * allowed AI models: ") >>

ComponentDescriptionLines(meta) ==
    IF Has(meta, "description")
    THEN << <<"   Description: ", Display(Get(meta, "description").val)>> >>
    ELSE <<>>

\* The build line: printed only when `build` is there, and an error when it
\* has no `command`.
BuildSection(meta) ==
    IF ~Has(meta, "build") THEN Rendered(<<>>, Ok)
    ELSE LET command == ValueGet(Get(meta, "build").val, "command")
         IN IF IsSome(command)
            THEN Rendered(<< <<"   This component was built using the command: ",
                               Display(command.val)>> >>, Ok)
            ELSE Rendered(<<>>, Err(MsgNoCommand))

\* Lines 117-161: the id line, and the metadata block when the map is not
\* empty.
MetadataSection(component) ==
    LET meta == component.metadata
        head == << <<"Component ", component.id>> >>
    IN IF IsEmpty(meta) THEN Rendered(head, Ok)
       ELSE LET build == BuildSection(meta)
            IN Rendered(head \o ComponentDescriptionLines(meta) \o GrantLines(meta)
                          \o build.lines,
                        build.res)

\* Lines 163-176: the primary source and its size.
SourceSection(component, stat) ==
    LET src == component.source
        head == << <<"   The source for component ", component.id>>,
                   <<"      * content type: ", src.content_type>> >>
    IN IF ~IsSome(src.content.source) THEN Rendered(head, Panic(MsgNoWasmSource))
       ELSE LET p == StripFilePrefix(src.content.source.val)
            IN IF ~IsSome(p) THEN Rendered(head, Panic(MsgSourceNotFile))
               ELSE IF ~IsSome(stat[p.val]) THEN Rendered(head, Err(MsgIo))
               ELSE Rendered(head \o << <<"      * file size: ",
                                          human_bytes(stat[p.val].val)>> >>, Ok)

\* Lines 178-183.
EnvLines(component) ==
    IF IsEmpty(component.env) THEN <<>>
    ELSE << <<"   Environment variables:">> >>
         \o [i \in 1..Len(component.env) |->
                <<"      * ", component.env[i][1], "=", component.env[i][2]>>]

\* The loop without its is_file test: every entry counted and summed.
RECURSIVE WalkLoopEveryEntry(_, _, _, _)
WalkLoopEveryEntry(entries, i, count, size) ==
    IF i > Len(entries) THEN [res |-> Ok, count |-> count, size |-> size]
    ELSE LET e == entries[i]
         IN IF e.kind = "err" THEN [res |-> Err(MsgWalk), count |-> count, size |-> size]
            ELSE IF ~e.meta_ok THEN [res |-> Err(MsgIo), count |-> count + 1, size |-> size]
            ELSE WalkLoopEveryEntry(entries, i + 1, count + 1, size + e.size)

\* Lines 191-200: the loop over the entries WalkDir yields, from entry i on,
\* with the running count and size.
RECURSIVE WalkLoop(_, _, _, _)
WalkLoop(entries, i, count, size) ==
    IF i > Len(entries) THEN [res |-> Ok, count |-> count, size |-> size]
    ELSE LET e == entries[i]
         IN IF e.kind = "err" THEN [res |-> Err(MsgWalk), count |-> count, size |-> size]
            ELSE IF e.kind = "file"
                 THEN IF e.meta_ok
                      THEN WalkLoop(entries, i + 1, count + 1, size + e.size)
                      ELSE [res |-> Err(MsgIo), count |-> count + 1, size |-> size]
            ELSE WalkLoop(entries, i + 1, count, size)

\* Lines 188-206: one mounted file set.
FileSetLine(f, walk) ==
    IF ~IsSome(f.content.source) THEN Rendered(<<>>, Panic(MsgNoContentSource))
    ELSE LET p == StripFilePrefix(f.content.source.val)
         IN IF ~IsSome(p) THEN Rendered(<<>>, Panic(MsgFileNotFile))
            ELSE LET w == WalkLoop(walk[p.val], 1, 0, 0)
                 IN IF w.res # Ok THEN Rendered(<<>>, w.res)
                    ELSE Rendered(<< <<"      * ", ToString(w.count),
                                       " files mounted at path ", Quote(f.path), ", ",
                                       human_bytes(w.size), " in total">> >>, Ok)

\* The file sets from the i-th on, stopping at the first that fails.
RECURSIVE FileSetLines(_, _, _)
FileSetLines(files, i, walk) ==
    IF i > Len(files) THEN Rendered(<<>>, Ok)
    ELSE LET one == FileSetLine(files[i], walk)
         IN IF one.res # Ok THEN one
            ELSE LET rest == FileSetLines(files, i + 1, walk)
                 IN Rendered(one.lines \o rest.lines, rest.res)

\* Lines 185-208.
FilesSection(component, walk) ==
    IF Len(component.files) = 0 THEN Rendered(<<>>, Ok)
    ELSE LET sets == FileSetLines(component.files, 1, walk)
         IN Rendered(<< <<"   Files:">> >> \o sets.lines, sets.res)

print_component(component, disk) ==
    LET m == MetadataSection(component)
    IN IF m.res # Ok THEN m
       ELSE LET s == SourceSection(component, disk.stat)
            IN IF s.res # Ok THEN Rendered(m.lines \o s.lines, s.res)
               ELSE LET f == FilesSection(component, disk.walk)
                    IN Rendered(m.lines \o s.lines \o EnvLines(component) \o f.lines,
                                f.res)

-----------------------------------------------------------------------------
(* AppSource (app_source.rs) *)

File(p) == [tag |-> "File", val |-> p]

OciRegistry(s) == [tag |-> "OciRegistry", val |-> s]

Unresolvable(m) == [tag |-> "Unresolvable", val |-> m]

AppSourceNone == [tag |-> "None", val |-> ""]

\* The source strings tried, and those spin_oci::is_probably_oci_reference
\* accepts (a library heuristic, taken here as a fact about each string).
SourceStrings == {"spin.toml", "app", "ghcr.io/org/app:v1", "localhost:5000/app"}

is_probably_oci_reference(s) == s \in {"ghcr.io/org/app:v1", "localhost:5000/app"}

\* (the message's backquotes around --from-registry are left out)
MsgNotFound(s) ==
    "File or directory '" \o s
    \o "' not found. If you meant to load from a registry, use the --from-registry option."

MsgNoManifest == "resolve_manifest_file_path error"

\* What spin_common::paths::resolve_manifest_file_path may answer for a path
\* that exists: the path itself, the manifest inside it, or an error.
ResolveOutcomes(s) == {Some(s), Some(s \o "/spin.toml"), None}

infer_file_source(resolved) ==
    IF IsSome(resolved) THEN File(resolved.val) ELSE Unresolvable(MsgNoManifest)

\* infer_source had it tried the registry heuristic before the local path.
infer_source_registry_first(s, exists, resolved) ==
    IF is_probably_oci_reference(s) THEN OciRegistry(s)
    ELSE IF exists THEN infer_file_source(resolved)
    ELSE Unresolvable(MsgNotFound(s))

\* exists: the answer of PathBuf::exists; resolved: the answer of
\* resolve_manifest_file_path, asked only when the path exists.
infer_source(s, exists, resolved) ==
    IF exists THEN infer_file_source(resolved)
    ELSE IF is_probably_oci_reference(s) THEN OciRegistry(s)
    ELSE Unresolvable(MsgNotFound(s))

MsgAmbiguous == "More than one application source was specified"

\* InfoCommand::app_source
AppSourceOf(opt, exists, resolved) ==
    IF IsSome(opt) THEN infer_source(opt.val, exists, resolved)
    ELSE Unresolvable(MsgAmbiguous)

-----------------------------------------------------------------------------
(* The other renderers of info.rs *)

print_trigger(trigger) ==
    <<"   * ", trigger.trigger_type, " trigger: ", trigger.id, ": ",
      Display(trigger.trigger_config)>>

\* impl Debug for Variable
DebugVariable(v) ==
    "Variable { default: "
    \o (IF IsSome(v.default) THEN "Some(" \o Quote(v.default.val) \o ")" ELSE "None")
    \o ", secret: " \o (IF v.secret THEN "true" ELSE "false") \o " }"

print_variables(variables) ==
    IF IsEmpty(variables) THEN <<>>
    ELSE << <<"Variables:">> >>
         \o [i \in 1..Len(variables) |->
                <<"   * ", variables[i][1], ": ", DebugVariable(variables[i][2])>>]

print_host_requirements(requirements) ==
    IF IsEmpty(requirements) THEN <<>>
    ELSE << <<"Host Requirements: ", DebugMap(requirements)>> >>

-----------------------------------------------------------------------------
(* InfoCommand::run, one action per step of the invocation.                *)

MsgUnsupported == "Spin Info plugin only supports file or registry applications."

MsgTodo ==
    "not yet implemented: Printing information about a local application not implemented yet"

MsgClient == "cannot create registry client"

MsgLoad == "load_app error"

Step(op, idx) == [op |-> op, idx |-> idx]

NoApp ==
    [metadata |-> <<>>, triggers |-> <<>>, variables |-> <<>>,
     host_requirements |-> <<>>, components |-> <<>>]

NoFs == [stat |-> <<>>, walk |-> <<>>]

-----------------------------------------------------------------------------
(* Bounds of the model, and the inputs drawn within them.                  *)

MaxAuthors == 2

MaxFiles == 2

MaxEntries == 6

MaxDepth == 2

MaxTriggers == 2

MaxComponents == 2

\* Sequences over S of length at most n.
SeqsUpTo(S, n) == UNION {[1..k -> S] : k \in 0..n}

\* A map entry that may be missing: the empty map, or the one entry k -> v.
OptEntry(k, Vs) == {<<>>} \cup {<< <<k, v>> >> : v \in Vs}

WasmPath == "/w/a.wasm"

AssetsPath == "/w/assets"

StaticPath == "/w/static"

Paths == {WasmPath, AssetsPath, StaticPath}

FileSizes == {512, 1024}

\* Directory entries: a regular file, a directory, a symlink (left unfollowed,
\* so never a regular file), and an error in place of an entry.
RegularFile(d, n, ok) == Entry("file", d, n, ok)

Dir(d) == Entry("dir", d, 4096, TRUE)

Symlink(d) == Entry("symlink", d, 11, TRUE)

WalkError(d) == Entry("err", d, 0, TRUE)

\* The entries that may follow the walk w: none once the loop has left (an
\* error, a file whose metadata fails) or when the root is no directory;
\* otherwise anything one level below the last directory, or shallower.
NextEntries(w, depth) ==
    LET last == w[Len(w)]
        deepest == IF last.kind = "dir" THEN last.depth + 1 ELSE last.depth
        top == IF deepest < depth THEN deepest ELSE depth
    IN IF w[1].kind # "dir" \/ last.kind = "err" \/ ~last.meta_ok THEN {}
       ELSE UNION {
              {RegularFile(d, n, ok) : n \in FileSizes, ok \in BOOLEAN}
              \cup {Dir(d), Symlink(d), WalkError(d)} : d \in 1..top}

\* What a walk may yield first: the root itself, whatever it is.
RootEntries ==
    {RegularFile(0, size, ok) : size \in FileSizes, ok \in BOOLEAN}
    \cup {Dir(0), Symlink(0), WalkError(0)}

\* Three files of 512 bytes and a subdirectory holding one more.
ExampleWalk ==
    <<Dir(0), RegularFile(1, 512, TRUE), RegularFile(1, 512, TRUE),
      RegularFile(1, 512, TRUE), Dir(1), RegularFile(2, 512, TRUE)>>

BrokenWalk == <<Dir(0), WalkError(1)>>

GoodFs ==
    [stat |-> [p \in Paths |-> IF p = WasmPath THEN Some(2048) ELSE Some(4096)],
     walk |-> [p \in Paths |-> IF p = AssetsPath THEN ExampleWalk
                               ELSE <<RegularFile(0, 1024, TRUE)>>]]

\* The artifact is gone.
NoWasmFs == [GoodFs EXCEPT !.stat[WasmPath] = None]

\* A mounted tree cannot be read.
BrokenMountFs == [GoodFs EXCEPT !.walk[AssetsPath] = BrokenWalk]

Content(src) == [source |-> src]

FileSet(path, src) == [path |-> path, content |-> Content(src)]

ComponentSource(src) == [content_type |-> "application/wasm", content |-> Content(src)]

Component(id, metadata, src, env, files) ==
    [id |-> id, metadata |-> metadata, source |-> ComponentSource(src),
     env |-> env, files |-> files]

\* ---- the metadata maps given to print_metadata

AuthorLists(n) == {Arr([i \in DOMAIN a |-> Str(a[i])]) : a \in SeqsUpTo({"A", "B"}, n)}

\* Values of `authors` that do not decode as Vec<String>.
BadAuthors == {Str("A"), Arr(<<Num(1)>>)}

\* Every metadata map with at most k authors.
AllMetadata(k) ==
    {a \o d \o n \o v :
        a \in OptEntry("authors", AuthorLists(k) \cup BadAuthors),
        d \in OptEntry("description", {Str("A todo list")}),
        n \in OptEntry("name", {Str("todo-app"), Num(7)}),
        v \in OptEntry("version", {Str("1.2.0")})}

\* ---- the components given to print_component

Hosts == Arr(<<Str("https://example.com")>>)

BuildValues ==
    {Obj(<< <<"command", Str("cargo build")>> >>),
     Obj(<< <<"workdir", Str("api")>> >>),
     Str("cargo build")}

AllComponentMetadata ==
    {ai \o ho \o bu \o db \o de \o kv :
        ai \in OptEntry("ai_models", {Arr(<<Str("llama2-chat")>>)}),
        ho \in OptEntry("allowed_outbound_hosts", {Hosts}),
        bu \in OptEntry("build", BuildValues),
        db \in OptEntry("databases", {Arr(<<Str("default")>>)}),
        de \in OptEntry("description", {Str("The API")}),
        kv \in OptEntry("key_value_stores", {Arr(<<Str("default")>>)})}

SourceUris ==
    {None, Some(Uri("https://", "example.com/a.wasm")), Some(Uri("file://", WasmPath))}

FileSets ==
    {FileSet("/", None),
     FileSet("/", Some(Uri("oci://", "ghcr.io/org/assets"))),
     FileSet("/assets", Some(Uri("file://", AssetsPath))),
     FileSet("/static", Some(Uri("file://", StaticPath)))}

Envs == {<<>>, << <<"LOG", "debug">>, <<"MODE", "prod">> >>}

\* Every shape of component, over a filesystem with or without the artifact.
ShapeInputs(n) ==
    {[component |-> Component("api", m, s, e, f), fs |-> d] :
        m \in AllComponentMetadata, s \in SourceUris, e \in Envs,
        f \in SeqsUpTo(FileSets, n), d \in {GoodFs, NoWasmFs}}

\* A well-formed component mounting one tree.
TreeComponent ==
    Component("api", <<>>, Some(Uri("file://", WasmPath)), <<>>,
              <<FileSet("/assets", Some(Uri("file://", AssetsPath)))>>)

\* The mounted tree lists as w, or as w followed by at most n more entries:
\* every pre-order listing of a tree at most depth deep.
RECURSIVE TreeListsAs(_, _, _)
TreeListsAs(w, n, depth) ==
    \/ fs = [GoodFs EXCEPT !.walk[AssetsPath] = w]
    \/ /\ n > 0
       /\ \E e \in NextEntries(w, depth) : TreeListsAs(Append(w, e), n - 1, depth)

-----------------------------------------------------------------------------
(* The renderers on their own: the argument is drawn in the initial state  *)
(* and one action applies the renderer to it.                              *)

Idle ==
    /\ app_source = None
    /\ source = AppSourceNone
    /\ path_exists = FALSE
    /\ locked_app = NoApp
    /\ ci = 0
    /\ steps = <<>>
    /\ out = <<>>
    /\ result = Running

InitMetadata ==
    /\ Idle
    /\ pc = "call"
    /\ fs = NoFs
    /\ arg \in AllMetadata(MaxAuthors)

CallPrintMetadata ==
    /\ pc = "call"
    /\ LET r == print_metadata(arg)
       IN /\ out' = r.lines
          /\ result' = r.res
    /\ pc' = "returned"
    /\ UNCHANGED <<app_source, source, path_exists, locked_app, fs, ci, steps, arg>>

SpecMetadata == InitMetadata /\ [][CallPrintMetadata]_vars

InitComponent ==
    /\ Idle
    /\ pc = "call"
    /\ \/ \E i \in ShapeInputs(MaxFiles) :
             /\ arg = i.component
             /\ fs = i.fs
       \/ /\ arg = TreeComponent
          /\ \E e \in RootEntries : TreeListsAs(<<e>>, MaxEntries - 1, MaxDepth)

CallPrintComponent ==
    /\ pc = "call"
    /\ LET r == print_component(arg, fs)
       IN /\ out' = r.lines
          /\ result' = r.res
    /\ pc' = "returned"
    /\ UNCHANGED <<app_source, source, path_exists, locked_app, fs, ci, steps, arg>>

SpecComponent == InitComponent /\ [][CallPrintComponent]_vars

-----------------------------------------------------------------------------
(* What the registry may hand back to an invocation.                       *)

HttpTrigger ==
    [id |-> "t-http", trigger_type |-> "http",
     trigger_config |-> Obj(<< <<"component", Str("c1")>>, <<"route", Str("/...")>> >>)]

CronTrigger ==
    [id |-> "t-cron", trigger_type |-> "cron", trigger_config |-> Str("0 * * * *")]

\* Trigger ids are unique within a manifest.
TriggerLists(n) ==
    {t \in SeqsUpTo({HttpTrigger, CronTrigger}, n) :
        \A i, j \in DOMAIN t : i # j => t[i] # t[j]}

VariableMaps ==
    {<<>>, << <<"api_key", [default |-> None, secret |-> TRUE]>>,
              <<"region", [default |-> Some("eu"), secret |-> FALSE]>> >>}

RequirementMaps == {<<>>, << <<"local_service_chaining", Str("yes")>> >>}

LoadedMetadata ==
    {<< <<"authors", Arr(<<Str("A"), Str("B")>>)>>, <<"name", Str("todo-app")>>,
        <<"version", Str("1.2.0")>> >>,
     << <<"description", Str("A todo list")>>, <<"name", Str("todo-app")>>,
        <<"version", Str("1.2.0")>> >>,
     << <<"authors", Str("A")>>, <<"name", Str("todo-app")>>, <<"version", Str("1.2.0")>> >>,
     << <<"name", Str("todo-app")>> >>}

WasmUri == Some(Uri("file://", WasmPath))

AssetsSet == FileSet("/assets", Some(Uri("file://", AssetsPath)))

\* Component shapes: well-formed (with and without metadata), and one per way
\* print_component can fail on the manifest alone.
LoadedShapes ==
    {Component("", << <<"allowed_outbound_hosts", Hosts>>,
                      <<"build", Obj(<< <<"command", Str("cargo build")>> >>)>> >>,
               WasmUri, <<>>, <<AssetsSet>>),
     Component("", <<>>, WasmUri, << <<"LOG", "debug">> >>, <<>>),
     Component("", << <<"build", Obj(<<>>)>> >>, WasmUri, <<>>, <<>>),
     Component("", <<>>, None, <<>>, <<>>),
     Component("", <<>>, WasmUri, <<>>, <<FileSet("/", Some(Uri("oci://", "ghcr.io/org/assets")))>>)}

\* Component ids are unique: the i-th component is named c<i>.
ComponentLists(n) ==
    {[i \in DOMAIN c |-> [c[i] EXCEPT !.id = "c" \o ToString(i)]] :
        c \in SeqsUpTo(LoadedShapes, n)}

\* The manifests of at most t triggers and c components.
LoadedApps(t, c) ==
    [metadata : LoadedMetadata, triggers : TriggerLists(t), variables : VariableMaps,
     host_requirements : RequirementMaps, components : ComponentLists(c)]

LoadedFs == {GoodFs, NoWasmFs, BrokenMountFs}

-----------------------------------------------------------------------------
(* InfoCommand::run *)

Init ==
    /\ app_source \in {None} \cup {Some(s) : s \in SourceStrings}
    /\ pc = "start"
    /\ source = AppSourceNone
    /\ path_exists = FALSE
    /\ locked_app = NoApp
    /\ fs = NoFs
    /\ ci = 0
    /\ steps = <<>>
    /\ out = <<>>
    /\ result = Running
    /\ arg = <<>>

\* The invocation ends here with res.
Ends(res) ==
    /\ result' = res
    /\ pc' = "done"

\* print_info_local as a silent no-op.
print_info_local_noop == Ok

\* print_info_local
print_info_local == Panic(MsgTodo)

\* run, up to the first await of the function it dispatches to.
Run ==
    /\ pc = "start"
    /\ \E exists \in BOOLEAN :
       \E resolved \in (IF IsSome(app_source) /\ exists
                        THEN ResolveOutcomes(app_source.val) ELSE {None}) :
          LET app == AppSourceOf(app_source, IsSome(app_source) /\ exists, resolved)
          IN /\ source' = app
             /\ path_exists' = (IsSome(app_source) /\ exists)
             /\ CASE app.tag = "OciRegistry" ->
                        /\ out' = << <<"Getting info for app ", Quote(app.val)>> >>
                        /\ pc' = "client"
                        /\ UNCHANGED result
                  [] app.tag = "File" ->
                        /\ Ends(print_info_local)
                        /\ UNCHANGED out
                  [] OTHER ->
                        /\ Ends(Err(MsgUnsupported))
                        /\ UNCHANGED out
    /\ steps' = Append(steps, Step("run", 0))
    /\ UNCHANGED <<app_source, locked_app, fs, ci, arg>>

\* spin_oci::Client::new(..).await.context(..)?
CreateClient ==
    /\ pc = "client"
    /\ steps' = Append(steps, Step("create_client", 0))
    /\ \/ /\ pc' = "tempdir"
          /\ UNCHANGED result
       \/ Ends(Err(MsgClient))
    /\ UNCHANGED <<app_source, source, path_exists, locked_app, fs, ci, out, arg>>

\* TempDir::with_prefix("spin-info-")?
MakeTempDir ==
    /\ pc = "tempdir"
    /\ steps' = Append(steps, Step("temp_dir", 0))
    /\ \/ /\ pc' = "load"
          /\ UNCHANGED result
       \/ Ends(Err(MsgIo))
    /\ UNCHANGED <<app_source, source, path_exists, locked_app, fs, ci, out, arg>>

\* OciLoader::new(..).load_app(&mut client, &app).await?  On success the
\* content lies in the working directory, addressed by file:// URIs.
LoadApp ==
    /\ pc = "load"
    /\ steps' = Append(steps, Step("load_app", 0))
    /\ \/ /\ locked_app' \in LoadedApps(MaxTriggers, MaxComponents)
          /\ fs' \in LoadedFs
          /\ pc' = "metadata"
          /\ UNCHANGED result
       \/ /\ Ends(Err(MsgLoad))
          /\ UNCHANGED <<locked_app, fs>>
    /\ UNCHANGED <<app_source, source, path_exists, ci, out, arg>>

\* self.print_metadata(&locked_app.metadata)?
RenderMetadata ==
    /\ pc = "metadata"
    /\ steps' = Append(steps, Step("print_metadata", 0))
    /\ LET r == print_metadata(locked_app.metadata)
       IN /\ out' = out \o r.lines
          /\ IF r.res = Ok
             THEN pc' = "triggers" /\ UNCHANGED result
             ELSE Ends(r.res)
    /\ UNCHANGED <<app_source, source, path_exists, locked_app, fs, ci, arg>>

\* Lines 53-56.
RenderTriggers ==
    /\ pc = "triggers"
    /\ steps' = steps \o [i \in 1..Len(locked_app.triggers) |-> Step("print_trigger", i)]
    /\ out' = out \o << <<"Application will be triggered by:">> >>
                  \o [i \in 1..Len(locked_app.triggers) |->
                         print_trigger(locked_app.triggers[i])]
    /\ pc' = "variables"
    /\ UNCHANGED <<app_source, source, path_exists, locked_app, fs, ci, result, arg>>

RenderVariables ==
    /\ pc = "variables"
    /\ steps' = Append(steps, Step("print_variables", 0))
    /\ out' = out \o print_variables(locked_app.variables)
    /\ pc' = "host_requirements"
    /\ UNCHANGED <<app_source, source, path_exists, locked_app, fs, ci, result, arg>>

RenderHostRequirements ==
    /\ pc = "host_requirements"
    /\ steps' = Append(steps, Step("print_host_requirements", 0))
    /\ out' = out \o print_host_requirements(locked_app.host_requirements)
    /\ pc' = "components"
    /\ UNCHANGED <<app_source, source, path_exists, locked_app, fs, ci, result, arg>>

\* The loop had it dropped the result of print_component and gone on.
RenderComponentKeepGoing ==
    /\ pc = "components"
    /\ ci < Len(locked_app.components)
    /\ ci' = ci + 1
    /\ steps' = Append(steps, Step("print_component", ci + 1))
    /\ out' = out \o print_component(locked_app.components[ci + 1], fs).lines
    /\ UNCHANGED <<pc, result>>
    /\ UNCHANGED <<app_source, source, path_exists, locked_app, fs, arg>>

\* One turn of the loop of lines 59-61: self.print_component(c)?
RenderComponent ==
    /\ pc = "components"
    /\ ci < Len(locked_app.components)
    /\ ci' = ci + 1
    /\ steps' = Append(steps, Step("print_component", ci + 1))
    /\ LET r == print_component(locked_app.components[ci + 1], fs)
       IN /\ out' = out \o r.lines
          /\ IF r.res = Ok
             THEN UNCHANGED <<pc, result>>
             ELSE Ends(r.res)
    /\ UNCHANGED <<app_source, source, path_exists, locked_app, fs, arg>>

\* Line 63: Ok(())
Finish ==
    /\ pc = "components"
    /\ ci = Len(locked_app.components)
    /\ Ends(Ok)
    /\ UNCHANGED <<app_source, source, path_exists, locked_app, fs, ci, steps, out, arg>>

Next ==
    \/ Run
    \/ CreateClient
    \/ MakeTempDir
    \/ LoadApp
    \/ RenderMetadata
    \/ RenderTriggers
    \/ RenderVariables
    \/ RenderHostRequirements
    \/ RenderComponent
    \/ Finish

Spec == Init /\ [][Next]_vars

-----------------------------------------------------------------------------
(* Properties *)

IsPrefix(a, b) == Len(a) <= Len(b) /\ \A i \in 1..Len(a) : a[i] = b[i]

\* The lines of `lines` whose first fragment is `label`, in order.
LinesLabelled(lines, label) == SelectSeq(lines, LAMBDA l : l[1] = label)

Failed == result.kind \in {"Err", "Panic"}

\* ---------------------------------------------------------------- C1

\* C1: when no usable source is determined (no source string, or infer_source
\* answers Unresolvable), run fails at once with the diagnostic the
\* Unresolvable descriptor carries as its error; the registry client and the
\* loader are never invoked and nothing is printed.
C1_FailsWithCarriedDiagnostic ==
    (pc = "done" /\ source.tag = "Unresolvable") =>
        /\ result = Err(source.val)
        /\ steps = <<Step("run", 0)>>
        /\ out = <<>>

\* ---------------------------------------------------------------- C7

\* C7: infer_source answers one descriptor per string and never
\* AppSource::None.  A string that is no local path gives OciRegistry with
\* the string verbatim exactly when it is registry-shaped, and Unresolvable
\* otherwise; a string that is a local path gives File or Unresolvable, never
\* OciRegistry, registry-shaped or not.  File is answered only for a path
\* that exists.
C7_InferSource ==
    (steps # <<>> /\ IsSome(app_source)) =>
        LET s == app_source.val
        IN /\ source.tag \in {"File", "OciRegistry", "Unresolvable"}
           /\ (~path_exists /\ is_probably_oci_reference(s)) => source = OciRegistry(s)
           /\ (~path_exists /\ ~is_probably_oci_reference(s)) => source.tag = "Unresolvable"
           /\ path_exists => source.tag \in {"File", "Unresolvable"}
           /\ source.tag = "File" => path_exists

\* A registry-shaped string that names an existing local path was resolved
\* to a file.
C7_Witness ==
    /\ IsSome(app_source)
    /\ is_probably_oci_reference(app_source.val)
    /\ path_exists
    /\ source.tag = "File"

\* ---------------------------------------------------------------- C8

\* C8: when the source resolves to a local file, run never succeeds and never
\* prints a report, empty or partial: it ends in the panic that says local
\* inspection is not implemented, and neither the registry client nor the
\* loader is invoked.
C8_LocalFileFailsLoudly ==
    (steps # <<>> /\ source.tag = "File") =>
        /\ pc = "done"
        /\ result = Panic(MsgTodo)
        /\ out = <<>>
        /\ steps = <<Step("run", 0)>>

\* An invocation on an existing manifest path has ended.
C8_Witness ==
    /\ source.tag = "File"
    /\ source.val = "spin.toml"
    /\ pc = "done"
    /\ result.kind = "Panic"

\* ---------------------------------------------------------------- C4

\* C4: for a metadata map without `name` or without `version`,
\* print_metadata returns the malformed-manifest error and prints nothing:
\* no identity line, whole or partial, and no author or description line.
C4_MissingIdentityPrintsNothing ==
    (pc = "returned" /\ (~Has(arg, "name") \/ ~Has(arg, "version"))) =>
        /\ result \in {Err(MsgNoName), Err(MsgNoVersion)}
        /\ out = <<>>

\* print_metadata has returned on a map with a name, authors and a
\* description, and no version.
C4_Witness ==
    /\ pc = "returned"
    /\ Has(arg, "name")
    /\ ~Has(arg, "version")
    /\ Has(arg, "authors")
    /\ Has(arg, "description")
    /\ result.kind = "Err"

\* ---------------------------------------------------------------- C10

\* A string value's bare text.
Bare(v) == IF v.t = "str" THEN v.s ELSE Display(v)

\* C10: for a metadata map with `name` and `version`, print_metadata prints
\* the identity line name@version first, with the bare field values, then one
\* line per author in order when `authors` is there, then the description
\* when it is there, and no other line.
C10_MetadataLines ==
    (/\ pc = "returned"
     /\ Has(arg, "name")
     /\ Has(arg, "version")
     /\ Has(arg, "authors") => DecodesAsStrings(Get(arg, "authors").val)) =>
        LET authors == IF Has(arg, "authors") THEN Get(arg, "authors").val.a ELSE <<>>
            n == Len(authors)
            d == IF Has(arg, "description") THEN 1 ELSE 0
        IN /\ result = Ok
           /\ Len(out) = 1 + n + d
           /\ out[1] = <<"Application name: ", Bare(Get(arg, "name").val), "@",
                         Bare(Get(arg, "version").val)>>
           /\ \A i \in 1..n : out[1 + i][Len(out[1 + i])] = Bare(authors[i])
           /\ d = 1 => out[Len(out)] = <<Bare(Get(arg, "description").val)>>

\* ---------------------------------------------------------------- C2

GrantLabels ==
    [allowed_outbound_hosts |-> "      * allowed outbound network hosts: ",
     key_value_stores |-> "      * allowed key/value stores: ",
     databases |-> "      * allowed databases: ",
     ai_models |-> "      * allowed AI models: "]

\* C2: for every component and every metadata map, the empty one included,
\* print_component prints all four capability-grant lines, each with the
\* declared value when the key is there and with None when it is not.
C2_AllGrantLinesPrinted ==
    pc = "returned" =>
        \A k \in DOMAIN GrantLabels :
            LinesLabelled(out, GrantLabels[k])
              = << <<GrantLabels[k],
                     IF Has(arg.metadata, k)
                     THEN Display(Get(arg.metadata, k).val) ELSE "None">> >>

\* ---------------------------------------------------------------- C5

BuildLabel == "   This component was built using the command: "

\* C5: a `build` entry without `command` makes print_component fail; a
\* `build` entry with a `command` has the command printed; and without any
\* `build` entry a "none" build line is printed in its place.
C5_BuildProvenance ==
    pc = "returned" =>
        LET meta == arg.metadata
            build == Get(meta, "build")
            lines == LinesLabelled(out, BuildLabel)
        IN /\ (IsSome(build) /\ ~IsSome(ValueGet(build.val, "command"))) =>
                 (result = Err(MsgNoCommand) /\ lines = <<>>)
           /\ (IsSome(build) /\ IsSome(ValueGet(build.val, "command"))) =>
                 lines = << <<BuildLabel, Display(ValueGet(build.val, "command").val)>> >>
           /\ ~IsSome(build) =>
                 (Len(lines) = 1 /\ lines[1][2] \in {"none", "None"})

\* ---------------------------------------------------------------- C9

RECURSIVE SumSizes(_, _)
SumSizes(w, J) ==
    IF J = {} THEN 0
    ELSE LET j == CHOOSE x \in J : TRUE
         IN w[j].size + SumSizes(w, J \ {j})

RegularFiles(w) == {j \in DOMAIN w : w[j].kind = "file"}

\* The lines that report a mounted file set, in order.
MountedLines(lines) ==
    SelectSeq(lines, LAMBDA l : Len(l) = 7 /\ l[3] = " files mounted at path ")

\* The line a file set is owed: the number of regular files under its path and
\* the sum of their sizes.
OwedLine(f) ==
    LET w == fs.walk[f.content.source.val.path]
    IN <<"      * ", ToString(Cardinality(RegularFiles(w))), " files mounted at path ",
         Quote(f.path), ", ", human_bytes(SumSizes(w, RegularFiles(w))), " in total">>

\* C9: for every mounted file set, over any bounded tree, the count printed
\* is the number of regular files in the whole subtree and the total is the
\* sum of those files' sizes; directories and other entries add to neither.
\* Three files of 1536 bytes in all and a subdirectory with one file of 512
\* bytes give 4 files and 2048 bytes.  Without file sets there is no Files
\* section.
C9_MountedCountAndTotal ==
    pc = "returned" =>
        LET mounted == MountedLines(out)
            sets == arg.files
        IN /\ Len(mounted) <= Len(sets)
           /\ result = Ok => Len(mounted) = Len(sets)
           /\ \A i \in 1..Len(mounted) : mounted[i] = OwedLine(sets[i])
           /\ Len(sets) = 0 => LinesLabelled(out, "   Files:") = <<>>
           /\ (result = Ok /\ sets = <<AssetsSet>> /\ fs.walk[AssetsPath] = ExampleWalk) =>
                 (mounted[1][2] = "4" /\ mounted[1][6] = human_bytes(2048))

\* The tree of the example has been rendered: 4 files, 2 KiB.
C9_Witness ==
    /\ pc = "returned"
    /\ result = Ok
    /\ arg.files = <<AssetsSet>>
    /\ fs.walk[AssetsPath] = ExampleWalk
    /\ MountedLines(out)
         = << <<"      * ", "4", " files mounted at path ", "\"/assets\"", ", ", "2 KiB",
                " in total">> >>

\* ---------------------------------------------------------------- C3

\* The steps of a whole report on app, in the order of print_info_registry.
StepOrder(app) ==
    <<Step("run", 0), Step("create_client", 0), Step("temp_dir", 0),
      Step("load_app", 0), Step("print_metadata", 0)>>
    \o [i \in 1..Len(app.triggers) |-> Step("print_trigger", i)]
    \o <<Step("print_variables", 0), Step("print_host_requirements", 0)>>
    \o [i \in 1..Len(app.components) |-> Step("print_component", i)]

Attempted(op) == \E i \in DOMAIN steps : steps[i].op = op

TriggerLines(lines) == SelectSeq(lines, LAMBDA l : Len(l) = 6 /\ l[3] = " trigger: ")

\* C3: on the registry path the steps run in one fixed order, each at most
\* once: create client, load manifest, render metadata, triggers in manifest
\* order, variables, host requirements, components in manifest order.  The
\* steps run are a prefix of that order that ends at the first failing step:
\* metadata comes before any component, nothing of a component is printed
\* when loading or metadata rendering fails, the loader is not retried, and
\* the first failing component ends the report.
C3_FixedOrderStopsAtFirstFailure ==
    source.tag = "OciRegistry" =>
        LET app == locked_app
            n == Len(app.components)
        IN /\ IsPrefix(steps, StepOrder(app))
           /\ Failed <=> (pc = "done" /\ result # Ok)
           /\ result = Ok => steps = StepOrder(app)
           /\ (Attempted("print_metadata") /\ print_metadata(app.metadata).res # Ok) =>
                 (Failed /\ steps[Len(steps)] = Step("print_metadata", 0))
           /\ ~Attempted("print_variables") => LinesLabelled(out, "Component ") = <<>>
           /\ \A k \in 1..ci :
                 print_component(app.components[k], fs).res # Ok => (k = ci /\ Failed)
           /\ Attempted("print_variables") =>
                 LinesLabelled(out, "Application will be triggered by:") # <<>>
           /\ TriggerLines(out)
                = (IF LinesLabelled(out, "Application will be triggered by:") # <<>>
                   THEN [i \in 1..Len(app.triggers) |-> print_trigger(app.triggers[i])]
                   ELSE <<>>)
           /\ LinesLabelled(out, "Component ")
                = [i \in 1..ci |-> <<"Component ", app.components[i].id>>]
           /\ ci > 0 => out[2][1] = "Application name: "

\* The first of two components has failed and the report has ended there,
\* after both triggers were printed.
C3_Witness ==
    /\ source.tag = "OciRegistry"
    /\ pc = "done"
    /\ result.kind = "Err"
    /\ Len(locked_app.components) = 2
    /\ Len(locked_app.triggers) = 2
    /\ ci = 1
    /\ steps[Len(steps)] = Step("print_component", 1)

\* ---------------------------------------------------------------- C6

\* The primary source of c is missing, is no file:// URI, or cannot be stat'ed.
PrimaryFault(c, disk) ==
    LET src == c.source.content.source
    IN \/ ~IsSome(src)
       \/ ~IsSome(StripFilePrefix(src.val))
       \/ ~IsSome(disk.stat[StripFilePrefix(src.val).val])

\* A file set of c has no source, no file:// URI, or a tree that cannot be
\* walked.
FileSetFault(c, disk) ==
    \E i \in DOMAIN c.files :
        LET src == c.files[i].content.source
        IN \/ ~IsSome(src)
           \/ ~IsSome(StripFilePrefix(src.val))
           \/ LET w == disk.walk[StripFilePrefix(src.val).val]
              IN \E j \in DOMAIN w : w[j].kind = "err" \/ ~w[j].meta_ok

\* C6: when a component's primary source URI or a file set's source URI is
\* missing or is no file:// URI, or the path cannot be stat'ed or walked, the
\* failure of print_component comes back as an error result of run (not
\* swallowed, not retried, no other kind of termination), and no size line is
\* printed for that source.
C6_SourceFaultIsErrorResult ==
    (/\ pc = "done"
     /\ ci >= 1
     /\ \/ PrimaryFault(locked_app.components[ci], fs)
        \/ FileSetFault(locked_app.components[ci], fs)) =>
        /\ result.kind = "Err"
        /\ steps[Len(steps)] = Step("print_component", ci)
        /\ PrimaryFault(locked_app.components[ci], fs) =>
              Len(LinesLabelled(out, "      * file size: ")) = ci - 1

====
